---- MODULE Spec2Model ----
(***************************************************************************)
(* State-machine model of sticker_maker.py: main, find_tool,               *)
(* get_video_info, calculate_target_details and the two-pass fit loop of   *)
(* compress_video.                                                         *)
(*                                                                         *)
(* Units.  A duration is held as an integer number of ticks of 1/8 second  *)
(* (every such value is an exact binary float, so float(duration) adds no  *)
(* rounding).  A file size is held in bytes; the code's final_size is      *)
(* bytes / 1024, an exact float division, so final_size <= MAX_SIZE_KB is  *)
(* bytes <= MAX_SIZE_KB * 1024.                                            *)
(***************************************************************************)
EXTENDS Integers, Sequences, FiniteSets, TLC

\* ---------------------------------------------------------------- bounds
MaxDim == 50          \* source widths and heights 0..MaxDim (plus BigDims)
MaxShortTicks == 3    \* short durations 1/8 s .. MaxShortTicks/8 s
MaxLongSteps == 32    \* long durations 5 s .. 5*MaxLongSteps s, step 5 s

\* ------------------------------------------------------- program constants
MAX_SIZE_KB == 256
TARGET_DIMENSION == 512
max_attempts == 3
BitrateFloor == 10

TicksPerSecond == 2 ^ 3

\* a safety factor is held in quarters: SAFE_BITRATE_FACTOR = 0.75 is 3
FactorUnits == 2 ^ 2
SAFE_BITRATE_FACTOR == 3

\* safe_bits = target_total_bits * current_bitrate_factor, with the factor
\* q / 4 (an exact binary float, and the product is exact: 1572864.0 for
\* the default 0.75)
SafeBits(q) == (MAX_SIZE_KB * 1024 * 8 * q) \div FactorUnits

\* ------------------------------------------------------------ arithmetic
Max(a, b) == IF a >= b THEN a ELSE b

RECURSIVE Pow2(_)
Pow2(n) == IF n <= 0 THEN 1 ELSE 2 * Pow2(n - 1)

\* the e >= 0 with 2^e <= x < 2^(e+1), for an integer x >= 1
RECURSIVE Log2Floor(_)
Log2Floor(x) == IF x < 2 THEN 0 ELSE 1 + Log2Floor(x \div 2)

\* the least s >= 0 with a <= num * 2^s, for num, a >= 1
RECURSIVE ShiftUp(_, _)
ShiftUp(num, a) == IF num >= a THEN 0 ELSE 1 + ShiftUp(2 * num, a)

\* remainder of the binary long division p / a after n more quotient bits
\* (r * 2^n mod a), taken 13 bits at a time while that many are left
RECURSIVE DivRemainder(_, _, _)
DivRemainder(r, a, n) ==
    IF n = 0 THEN r
    ELSE IF n >= 13 THEN DivRemainder((Pow2(13) * r) % a, a, n - 13)
    ELSE DivRemainder((2 * r) % a, a, n - 1)

\* int((TARGET_DIMENSION / longer) * shorter) in IEEE double arithmetic, for
\* integers longer >= 1 and 0 <= shorter <= longer.  The quotient
\* TARGET_DIMENSION / longer is rounded to 53 significant bits, the product
\* is rounded again, and int() truncates.  When TARGET_DIMENSION * shorter
\* is not a multiple of longer the fraction is at least 1/longer, far above
\* the rounding error, and the result is the exact floor.  When it is a
\* multiple N, the result is N unless the quotient was rounded down by more
\* than half the spacing of the doubles just below N, and then it is N - 1.
ScaleEdge(longer, shorter) ==
    LET num   == TARGET_DIMENSION * shorter
        N     == num \div longer
        up    == ShiftUp(TARGET_DIMENSION, longer)
        down  == IF up = 0 THEN Log2Floor(TARGET_DIMENSION \div longer) ELSE 0
        \* TARGET_DIMENSION / longer = (P / longer) * 2^(down - up), 1 <= P/longer < 2
        P     == IF up = 0 THEN TARGET_DIMENSION \div Pow2(down)
                           ELSE TARGET_DIMENSION * Pow2(up)
        r     == DivRemainder(P - longer, longer, 52)
        k     == Log2Floor(N)
        half  == IF N = Pow2(k) THEN 4 ELSE 2
    IN  IF shorter = 0 THEN 0
        ELSE IF num % longer /= 0 THEN N
        ELSE IF r = 0 \/ 2 * r > longer THEN N
        ELSE IF half * r * shorter <= longer * Pow2(k - (down - up)) THEN N
        ELSE N - 1

\* variant: the parity fix-up left out
MakeEven_skipped(x) == x

\* "if x % 2 != 0: x -= 1"
MakeEven(x) == IF x % 2 /= 0 THEN x - 1 ELSE x

\* variant: kbps taken as 1024 bits per second
BitrateKbps_kibi(ticks, q) ==
    IF ticks > 0 THEN (SafeBits(q) * TicksPerSecond) \div (1024 * ticks)
    ELSE 0 - ((SafeBits(q) * TicksPerSecond) \div (1024 * (0 - ticks)))

\* variant: safe_bits multiplied by the duration instead of divided
BitrateKbps_times(ticks, q) ==
    IF ticks > 0 THEN ((SafeBits(q) \div 1000) * ticks) \div TicksPerSecond
    ELSE 0 - (((SafeBits(q) \div 1000) * (0 - ticks)) \div TicksPerSecond)

\* int(bitrate_bps / 1000) with bitrate_bps = safe_bits / duration, duration
\* = ticks / 8 > 0.  The exact value 2^19 * q * 8 / (1000 * ticks) is never an
\* integer (125 does not divide 2^19 * q for q <= 4) and lies at least
\* 1/(125 * ticks) from one, so the two float roundings cannot move it
\* across an integer.
\* int() truncates toward zero: a negative duration gives a value <= 0.
BitrateKbps(ticks, q) ==
    IF ticks > 0 THEN (SafeBits(q) * TicksPerSecond) \div (1000 * ticks)
    ELSE 0 - ((SafeBits(q) * TicksPerSecond) \div (1000 * (0 - ticks)))

\* variant: the hard floor left out
ClampFloor_none(b) == b

\* "if bitrate_kbps < 10: bitrate_kbps = 10"
ClampFloor(b) == IF b < BitrateFloor THEN BitrateFloor ELSE b

\* calculate_target_details raises ZeroDivisionError when it divides by a
\* zero duration, or by a zero height in the else branch
CalcRaises(dur, w, h) == dur = 0 \/ (~(w > h) /\ h = 0)

\* calculate_target_details(duration, width, height, current_bitrate_factor):
\* <<new_width, new_height, bitrate_kbps>>
calculate_target_details(dur, w, h, q) ==
    LET dims == IF w > h
                THEN <<TARGET_DIMENSION, ScaleEdge(w, h)>>
                ELSE <<ScaleEdge(h, w), TARGET_DIMENSION>>
    IN  <<MakeEven(dims[1]), MakeEven(dims[2]), ClampFloor(BitrateKbps(dur, q))>>

\* variant: the reduced value is not re-clamped
ReduceBitrate_unclamped(b) == (4 * b) \div 5

\* variant: the product is computed but the old bitrate is kept
ReduceBitrate_kept(b) == b

\* variant: the ratio is applied the wrong way round (1.20)
ReduceBitrate_grow(b) == ClampFloor((6 * b) \div 5)

\* variant: reduce by 25% instead of 20%
ReduceBitrate_quarter(b) == ClampFloor((3 * b) \div 4)

\* "current_bitrate = int(current_bitrate * 0.80)": the double nearest 0.80
\* is slightly above 4/5, so the product never rounds below an exact
\* multiple, and int() gives floor(4 * b / 5) for every b >= 0
ReduceBitrate(b) == ClampFloor((4 * b) \div 5)

\* ----------------------------------------------------------------- inputs
\* durations ffprobe can report, in ticks: short clips, 5 s .. 5*MaxLongSteps s
PositiveTicks == (1 .. MaxShortTicks) \cup {5 * TicksPerSecond * n : n \in 1 .. MaxLongSteps}
\* a reported duration of "0" or "-1.0" parses as a float too
ReportedTicks == PositiveTicks \cup {0, 0 - TicksPerSecond}

BigDims == {1000, 1080, 1920}
CalcDims == (0 .. MaxDim) \cup BigDims
LoopDims == {<<1920, 1080>>, <<1000, 1000>>, <<1000, 1>>, <<49, 49>>,
             <<3, 4>>, <<0, 4>>, <<4, 0>>, <<0, 0>>}

\* what the ffprobe run hands to get_video_info
ProbeKinds == {"proc_fail", "no_video", "no_dims", "no_duration", "ok"}
ProbeOutputs ==
    {[kind |-> k, duration |-> 0, width |-> 0, height |-> 0] :
        k \in {"proc_fail", "no_video", "no_dims"}}
    \cup {[kind |-> "no_duration", duration |-> 0, width |-> d[1], height |-> d[2]] :
        d \in LoopDims}
    \cup {[kind |-> "ok", duration |-> t, width |-> d[1], height |-> d[2]] :
        t \in ReportedTicks, d \in LoopDims}

BudgetBytes == MAX_SIZE_KB * 1024
\* sizes os.path.getsize can report for the encoded file
Sizes == {BudgetBytes - 1, BudgetBytes, BudgetBytes + 1, 270 * 1024, 300 * 1024}

NoExit == 0 - 1
NoFile == [written |-> FALSE, attempt |-> 0, size |-> 0]
NoData == [kind |-> "unset", duration |-> 0, width |-> 0, height |-> 0]

\* a path is held as os.path.dirname / splitext(basename) see it
NoPath == [dir |-> "", name |-> "", ext |-> ""]
NullSink == [dir |-> "", name |-> "NUL", ext |-> ""]
InputPaths == {[dir |-> "", name |-> "clip", ext |-> ".mp4"],
               [dir |-> "videos", name |-> "anim.v2", ext |-> ".mov"]}

\* ------------------------------------------------------------------ state
VARIABLES
    pc,              \* position in main / compress_video
    exit_status,     \* NoExit while running, else the process exit status
    ffmpeg_path,     \* "unset", "none" (find_tool returned None) or "path"
    input_file,      \* "unset", "missing" or "present" (os.path.exists)
    ffprobe_path,    \* "unset", "none" or "path"
    data,            \* what the ffprobe run produced
    input_path,      \* the path main hands to compress_video
    output_path,     \* compress_video's output path
    duration,        \* get_video_info result (ticks)
    width,
    height,
    new_w,           \* calculate_target_details result
    new_h,
    bitrate_k,
    current_bitrate_factor, \* the factor calculate_target_details works with
    current_bitrate, \* loop variable
    attempt,         \* loop variable, 0-based as in range(max_attempts)
    final_size,      \* last measured size (bytes)
    output_file,     \* the file at output_path: who wrote it and its size
    pass_log,        \* TRUE while an ffmpeg2pass*.log file is in the cwd
    calls,           \* history: the ffmpeg invocations, in order
    stdout           \* history: the messages printed, in order

vars == <<pc, exit_status, ffmpeg_path, input_file, ffprobe_path, data,
          input_path, output_path,
          duration, width, height, new_w, new_h, bitrate_k,
          current_bitrate_factor, current_bitrate, attempt, final_size,
          output_file, pass_log, calls, stdout>>

envVars == <<ffmpeg_path, input_file, ffprobe_path, data>>

probeVars == <<duration, width, height>>
targetVars == <<new_w, new_h, bitrate_k, current_bitrate_factor>>
loopVars == <<current_bitrate, attempt, final_size>>
diskVars == <<output_file, pass_log, calls>>
pathVars == <<input_path, output_path>>

\* ------------------------------------------------------------ operations
\* sys.exit(code), a return out of main, or an uncaught exception (status 1)
Exit(code) == pc' = "exited" /\ exit_status' = code

\* get_video_info: the try body either returns the triple or raises, and the
\* except clause turns every exception into sys.exit(1)
get_video_info(probe) ==
    IF probe.kind \in {"proc_fail", "no_video", "no_dims"}
    THEN [ok |-> FALSE, duration |-> 0, width |-> 0, height |-> 0]
    ELSE [ok |-> TRUE,
          duration |-> IF probe.kind = "no_duration" THEN 0 ELSE probe.duration,
          width |-> probe.width, height |-> probe.height]

\* variant: the result of find_tool is not tested
ToolMissing_never(path) == FALSE

\* "if not ffmpeg_path" / "if not ffprobe_path"
ToolMissing(path) == path = "none"

\* variant: check=True left out
RunChecked_unchecked(rc) == "returns"

\* subprocess.run(..., check=True): a non-zero return code raises
\* CalledProcessError
RunChecked(rc) == IF rc = 0 THEN "returns" ELSE "raises"

\* variant: the limit itself counts as too large
WithinLimit_strict(bytes) == bytes < BudgetBytes

\* "if final_size <= MAX_SIZE_KB"
WithinLimit(bytes) == bytes <= BudgetBytes

\* variant: off by one, the last attempt is treated as retryable
MayRetry_always(a) == a < max_attempts

\* "if attempt < max_attempts - 1"
MayRetry(a) == a < max_attempts - 1

\* variant: off by one, one iteration too many
LoopHasNext_extra(a) == a + 1 <= max_attempts

\* "for attempt in range(max_attempts)": is there an iteration after a
LoopHasNext(a) == a + 1 < max_attempts

\* lines 89-92: same directory, base name without its extension, fixed suffix
OutputPathFor(path) ==
    [dir |-> path.dir, name |-> path.name \o "_sticker", ext |-> ".webm"]

\* variant: every retry scales two pixels further down
Invocation_rescaled(pass, rc) ==
    [attempt |-> attempt + 1, pass |-> pass, bitrate |-> current_bitrate,
     w |-> new_w - 2 * attempt, h |-> new_h - 2 * attempt, rc |-> rc,
     input |-> input_path,
     output |-> IF pass = 1 THEN NullSink ELSE output_path]

\* variant: pass 2 is given the seeded bitrate instead of the current one
Invocation_stale(pass, rc) ==
    [attempt |-> attempt + 1, pass |-> pass,
     bitrate |-> IF pass = 2 THEN bitrate_k ELSE current_bitrate,
     w |-> new_w, h |-> new_h, rc |-> rc,
     input |-> input_path,
     output |-> IF pass = 1 THEN NullSink ELSE output_path]

\* the ffmpeg command line of one pass, as far as it varies
Invocation(pass, rc) ==
    [attempt |-> attempt + 1, pass |-> pass, bitrate |-> current_bitrate,
     w |-> new_w, h |-> new_h, rc |-> rc,
     input |-> input_path,
     output |-> IF pass = 1 THEN NullSink ELSE output_path]

Init ==
    /\ pc = "main"
    /\ exit_status = NoExit
    /\ ffmpeg_path = "unset" /\ input_file = "unset" /\ ffprobe_path = "unset"
    /\ data = NoData
    /\ input_path = NoPath /\ output_path = NoPath
    /\ duration = 0 /\ width = 0 /\ height = 0
    /\ new_w = 0 /\ new_h = 0 /\ bitrate_k = 0
    /\ current_bitrate_factor = SAFE_BITRATE_FACTOR
    /\ current_bitrate = 0 /\ attempt = 0 /\ final_size = 0
    /\ output_file = NoFile
    /\ pass_log = FALSE
    /\ calls = <<>>
    /\ stdout = <<>>

\* main, lines 170-177: banner, find_tool("ffmpeg")
FindFfmpeg ==
    /\ pc = "main"
    /\ \E found \in {"none", "path"} :
         /\ ffmpeg_path' = found
         /\ IF ToolMissing(found)
            THEN /\ Exit(1)
                 /\ stdout' = stdout \o <<"banner", "err_ffmpeg">>
            ELSE /\ pc' = "check_input"
                 /\ exit_status' = exit_status
                 /\ stdout' = stdout \o <<"banner">>
    /\ UNCHANGED <<input_file, ffprobe_path, data, probeVars, targetVars,
                   loopVars, diskVars>>
    /\ UNCHANGED pathVars

\* main, lines 179-191: take the input path, os.path.exists
CheckInput ==
    /\ pc = "check_input"
    /\ \E given \in {"missing", "present"}, path \in InputPaths :
         /\ input_file' = given
         /\ input_path' = path
         /\ output_path' = output_path
         /\ IF given = "present"
            THEN /\ pc' = "find_ffprobe"
                 /\ UNCHANGED <<exit_status, stdout>>
            ELSE \* print, then a plain return out of main
                 /\ Exit(0)
                 /\ stdout' = stdout \o <<"err_file">>
    /\ UNCHANGED <<ffmpeg_path, ffprobe_path, data, probeVars, targetVars,
                   loopVars, diskVars>>

\* compress_video, lines 89-100: output path, find_tool("ffprobe")
FindFfprobe ==
    /\ pc = "find_ffprobe"
    /\ output_path' = OutputPathFor(input_path)
    /\ input_path' = input_path
    /\ \E found \in {"none", "path"} :
         /\ ffprobe_path' = found
         /\ IF ToolMissing(found)
            THEN \* print, return from compress_video, main falls off its end
                 /\ Exit(0)
                 /\ stdout' = stdout \o <<"err_ffprobe">>
            ELSE /\ pc' = "probe"
                 /\ exit_status' = exit_status
                 /\ stdout' = stdout \o <<"analyzing">>
    /\ UNCHANGED <<ffmpeg_path, input_file, data, probeVars, targetVars,
                   loopVars, diskVars>>

\* compress_video line 101: get_video_info(ffprobe_path, input_path)
GetVideoInfo ==
    /\ pc = "probe"
    /\ \E probe \in ProbeOutputs :
         LET info == get_video_info(probe) IN
         /\ data' = probe
         /\ IF info.ok
            THEN /\ duration' = info.duration
                 /\ width' = info.width
                 /\ height' = info.height
                 /\ pc' = "calc"
                 /\ UNCHANGED <<exit_status, stdout>>
            ELSE /\ Exit(1)
                 /\ stdout' = stdout \o <<"err_analyze">>
                 /\ UNCHANGED probeVars
    /\ UNCHANGED <<ffmpeg_path, input_file, ffprobe_path, targetVars, loopVars,
                   diskVars>>
    /\ UNCHANGED pathVars

\* compress_video lines 103-115: calculate_target_details, the report, the
\* loop set-up and the header of the first iteration
CalculateTarget ==
    /\ pc = "calc"
    /\ IF CalcRaises(duration, width, height)
       THEN \* ZeroDivisionError, not caught anywhere
            /\ Exit(1)
            /\ UNCHANGED <<targetVars, loopVars, stdout>>
       ELSE LET t == calculate_target_details(duration, width, height,
                                              current_bitrate_factor) IN
            /\ current_bitrate_factor' = current_bitrate_factor
            /\ new_w' = t[1]
            /\ new_h' = t[2]
            /\ bitrate_k' = t[3]
            /\ current_bitrate' = t[3]
            /\ attempt' = 0
            /\ pc' = "pass1"
            /\ stdout' = stdout \o <<"target", "attempt">>
            /\ UNCHANGED <<exit_status, final_size>>
    /\ UNCHANGED <<envVars, probeVars, diskVars>>
    /\ UNCHANGED pathVars

\* variant: a single-pass encode, the loop goes from pass 1 straight on to the
\* cleanup and the measurement
Pass1_single ==
    /\ pc = "pass1"
    /\ \E rc \in {0, 1}, logged \in BOOLEAN :
         /\ calls' = Append(calls, Invocation(1, rc))
         \* a failing first pass may or may not have started its log
         /\ pass_log' = (pass_log \/ rc = 0 \/ logged)
         /\ IF RunChecked(rc) = "returns"
            THEN pc' = "cleanup" /\ exit_status' = exit_status
            ELSE Exit(1)    \* CalledProcessError, not caught
    /\ UNCHANGED <<envVars, probeVars, targetVars, loopVars, output_file, stdout>>
    /\ UNCHANGED pathVars

\* lines 117-130: pass 1, output to the null sink, statistics to the pass log
Pass1 ==
    /\ pc = "pass1"
    /\ \E rc \in {0, 1}, logged \in BOOLEAN :
         /\ calls' = Append(calls, Invocation(1, rc))
         \* a failing first pass may or may not have started its log
         /\ pass_log' = (pass_log \/ rc = 0 \/ logged)
         /\ IF RunChecked(rc) = "returns"
            THEN pc' = "pass2" /\ exit_status' = exit_status
            ELSE Exit(1)    \* CalledProcessError, not caught
    /\ UNCHANGED <<envVars, probeVars, targetVars, loopVars, output_file, stdout>>
    /\ UNCHANGED pathVars

\* lines 132-145: pass 2 writes output_path
Pass2 ==
    /\ pc = "pass2"
    /\ \E rc \in {0, 1}, size \in Sizes, partial \in BOOLEAN :
         /\ calls' = Append(calls, Invocation(2, rc))
         /\ output_file' =
                IF rc = 0
                THEN [written |-> TRUE, attempt |-> attempt + 1, size |-> size]
                \* a failing ffmpeg may or may not have started the output file
                ELSE IF partial
                THEN [written |-> TRUE, attempt |-> attempt + 1, size |-> 0]
                ELSE output_file
         /\ IF RunChecked(rc) = "returns"
            THEN pc' = "cleanup" /\ exit_status' = exit_status
            ELSE Exit(1)    \* CalledProcessError, not caught
    /\ UNCHANGED <<envVars, probeVars, targetVars, loopVars, pass_log, stdout>>
    /\ UNCHANGED pathVars

\* lines 147-151: remove ffmpeg2pass*.log, ignoring a failing os.remove
CleanupLogs ==
    /\ pc = "cleanup"
    /\ \E removed \in BOOLEAN : pass_log' = (pass_log /\ ~removed)
    /\ pc' = "measure"
    /\ UNCHANGED <<exit_status, envVars, probeVars, targetVars, loopVars,
                   output_file, calls, stdout>>
    /\ UNCHANGED pathVars

\* lines 153-154: os.path.getsize(output_path), print the result
Measure ==
    /\ pc = "measure"
    /\ final_size' = output_file.size
    /\ stdout' = stdout \o <<"result">>
    /\ pc' = "decide"
    /\ UNCHANGED <<exit_status, envVars, probeVars, targetVars, current_bitrate,
                   attempt, diskVars>>
    /\ UNCHANGED pathVars

\* lines 156-165 and the loop header, lines 114-115
Decide ==
    /\ pc = "decide"
    /\ IF WithinLimit(final_size)
       THEN \* break
            /\ stdout' = stdout \o <<"success">>
            /\ pc' = "done"
            /\ UNCHANGED <<current_bitrate, attempt>>
       ELSE LET reduced == IF MayRetry(attempt)
                           THEN ReduceBitrate(current_bitrate)
                           ELSE current_bitrate
                note == IF MayRetry(attempt) THEN "overshot" ELSE "warning"
            IN  /\ current_bitrate' = reduced
                /\ IF LoopHasNext(attempt)
                   THEN /\ attempt' = attempt + 1
                        /\ stdout' = stdout \o <<note, "attempt">>
                        /\ pc' = "pass1"
                   ELSE /\ attempt' = attempt
                        /\ stdout' = stdout \o <<note>>
                        /\ pc' = "done"
    /\ UNCHANGED <<exit_status, envVars, probeVars, targetVars, final_size,
                   diskVars>>
    /\ UNCHANGED pathVars

\* line 167, return from compress_video, main falls off its end
Finish ==
    /\ pc = "done"
    /\ stdout' = stdout \o <<"done">>
    /\ Exit(0)
    /\ UNCHANGED <<envVars, probeVars, targetVars, loopVars, diskVars>>
    /\ UNCHANGED pathVars

Next ==
    \/ FindFfmpeg
    \/ CheckInput
    \/ FindFfprobe
    \/ GetVideoInfo
    \/ CalculateTarget
    \/ Pass1
    \/ Pass2
    \/ CleanupLogs
    \/ Measure
    \/ Decide
    \/ Finish

Spec == Init /\ [][Next]_vars

\* every subprocess.run is a blocking call that returns, and nothing else
\* can hold the single thread up
FairSpec == Spec /\ WF_vars(Next)

\* calculate_target_details on its own, over a wide range of probed clips:
\* the state right after get_video_info has returned
InitCalc ==
    /\ pc = "calc"
    /\ exit_status = NoExit
    /\ ffmpeg_path = "path" /\ input_file = "present" /\ ffprobe_path = "path"
    /\ duration \in ReportedTicks
    /\ width \in CalcDims
    /\ height \in CalcDims
    /\ data = [kind |-> "ok", duration |-> duration, width |-> width, height |-> height]
    /\ input_path = [dir |-> "", name |-> "clip", ext |-> ".mp4"]
    /\ output_path = OutputPathFor(input_path)
    /\ new_w = 0 /\ new_h = 0 /\ bitrate_k = 0
    /\ current_bitrate_factor = SAFE_BITRATE_FACTOR
    /\ current_bitrate = 0 /\ attempt = 0 /\ final_size = 0
    /\ output_file = NoFile
    /\ pass_log = FALSE
    /\ calls = <<>>
    /\ stdout = <<"banner", "analyzing">>

NextCalc == CalculateTarget

SpecCalc == InitCalc /\ [][NextCalc]_vars

\* the bitrate half of calculate_target_details, called with an explicit
\* current_bitrate_factor of 0.25, 0.5, 0.75 or 1.0
Factors == 1 .. FactorUnits
RateDims == {d \in LoopDims : d[1] > 0 /\ d[2] > 0}

InitRate ==
    /\ pc = "calc"
    /\ exit_status = NoExit
    /\ ffmpeg_path = "path" /\ input_file = "present" /\ ffprobe_path = "path"
    /\ duration \in ReportedTicks
    /\ \E d \in RateDims : width = d[1] /\ height = d[2]
    /\ data = [kind |-> "ok", duration |-> duration, width |-> width, height |-> height]
    /\ input_path = [dir |-> "", name |-> "clip", ext |-> ".mp4"]
    /\ output_path = OutputPathFor(input_path)
    /\ new_w = 0 /\ new_h = 0 /\ bitrate_k = 0
    /\ current_bitrate_factor \in Factors
    /\ current_bitrate = 0 /\ attempt = 0 /\ final_size = 0
    /\ output_file = NoFile
    /\ pass_log = FALSE
    /\ calls = <<>>
    /\ stdout = <<"banner", "analyzing">>

SpecRate == InitRate /\ [][NextCalc]_vars

\* ================================================================ properties
Printed(tag) == \E i \in 1 .. Len(stdout) : stdout[i] = tag
CountTag(tag) == Cardinality({i \in 1 .. Len(stdout) : stdout[i] = tag})
InLoop == pc \in {"pass1", "pass2", "cleanup", "measure", "decide", "done"}
ProbeFailed == data.kind \in {"proc_fail", "no_video", "no_dims"}

RECURSIVE Power(_, _)
Power(b, n) == IF n = 0 THEN 1 ELSE b * Power(b, n - 1)

\* ------------------------------------------------------------------- C1
C1_AttemptsBounded ==
    /\ \A i \in 1 .. Len(calls) : calls[i].attempt <= 3
    /\ Cardinality({i \in 1 .. Len(calls) : calls[i].pass = 1}) <= 3
    /\ Len(calls) <= 2 * 3

\* C1: whatever sizes are measured, and given that every external process
\* returns, the run reaches its end, and it never starts more than
\* max_attempts = 3 two-pass attempts (no 4th attempt, at most 6 ffmpeg runs).
C1_Terminates == [] C1_AttemptsBounded /\ <>(pc = "exited")

\* three attempts, every one oversized, and the run has ended
C1_Witness ==
    /\ pc = "exited"
    /\ Len(calls) = 6
    /\ CountTag("overshot") = 2
    /\ final_size > BudgetBytes

\* ------------------------------------------------------------------- C2
\* C2: for every positive duration, the bitrate calculate_target_details
\* returns, the loop's current bitrate after any number of reductions, and
\* the bitrate of every ffmpeg invocation are all >= 10 kbps.
C2_BitrateFloor ==
    duration > 0 =>
        /\ InLoop => bitrate_k >= 10 /\ current_bitrate >= 10
        /\ \A i \in 1 .. Len(calls) : calls[i].bitrate >= 10

\* a clip whose seeded bitrate is above the floor and whose second
\* reduction would fall below it, encoding its third attempt at the floor
C2_Witness ==
    /\ duration > 0
    /\ pc = "pass2"
    /\ attempt = 2
    /\ bitrate_k > 10
    /\ (4 * ((4 * bitrate_k) \div 5)) \div 5 < 10
    /\ calls[Len(calls)].bitrate = 10

\* ------------------------------------------------------------------- C3
\* C3 as stated: the bitrate of attempt k+1 is floor(B0 * 0.80^k), clamped
\* to 10, for the seeded bitrate B0 (a single floor of the closed form).
C3_ClosedForm ==
    \A i \in 1 .. Len(calls) :
        LET k == calls[i].attempt - 1
        IN  calls[i].bitrate = Max(10, (bitrate_k * Power(4, k)) \div Power(5, k))

\* C3 amended: the bitrate of attempt k+1 (k = 0, 1, 2) is B_k, where B_0 is
\* the seeded bitrate and B_(j+1) = max(10, floor(B_j * 0.80)): the floor and
\* the clamp are applied at every reduction, not once to B0 * 0.80^k.
C3_StepwiseLaw ==
    \A i \in 1 .. Len(calls) :
        LET b0 == bitrate_k
            b1 == Max(10, (4 * b0) \div 5)
            b2 == Max(10, (4 * b1) \div 5)
        IN  calls[i].bitrate = CASE calls[i].attempt = 1 -> b0
                                 [] calls[i].attempt = 2 -> b1
                                 [] OTHER -> b2

\* B0 = 22 (a 70 s clip): attempt 3 runs at 13 kbps, not floor(22 * 0.64) = 14
C3_Witness ==
    /\ bitrate_k = 22
    /\ Len(calls) = 6
    /\ calls[1].bitrate = 22
    /\ calls[3].bitrate = 17
    /\ calls[5].bitrate = 13

\* ------------------------------------------------------------------- C4
C4_Accepted ==
    Printed("success") =>
        /\ final_size <= 256 * 1024
        /\ pc \in {"done", "exited"}
        /\ Len(calls) = 2 * (attempt + 1)
        /\ calls[Len(calls)].bitrate = current_bitrate
        /\ ~Printed("warning")
        /\ \A i \in 1 .. Len(stdout) :
             stdout[i] = "success" => \A j \in (i + 1) .. Len(stdout) : stdout[j] = "done"
        /\ pc = "exited" => exit_status = 0

C4_Step ==
    (pc = "decide" /\ final_size <= 256 * 1024) =>
        /\ pc' = "done"
        /\ stdout' = Append(stdout, "success")
        /\ calls' = calls
        /\ current_bitrate' = current_bitrate
        /\ attempt' = attempt

\* C4: on any attempt, a measured size <= 256 KB (256 KB itself included)
\* stops the loop at once: the next step reports success, no further ffmpeg
\* process runs, the bitrate and attempt number stay as they are, no
\* overshoot or size warning follows, and the process exits with status 0.
C4_AcceptedIsTerminal == [] C4_Accepted /\ [][C4_Step]_vars

\* accepted on the second attempt with a file of exactly 256 KB
C4_Witness ==
    /\ pc = "exited"
    /\ exit_status = 0
    /\ Printed("success")
    /\ attempt = 1
    /\ final_size = 256 * 1024

\* ------------------------------------------------------------------- C5
\* C5: when three attempts have been measured and the third is still above
\* 256 KB, the run prints the warning (not the success message), exits with
\* status 0, and the file at the output path is the one attempt 3 wrote.
C5_ExhaustedIsSoft ==
    (CountTag("result") = 3 /\ final_size > 256 * 1024 /\ pc \in {"done", "exited"}) =>
        /\ Printed("warning")
        /\ ~Printed("success")
        /\ output_file = [written |-> TRUE, attempt |-> 3, size |-> final_size]
        /\ pc = "exited" => exit_status = 0 /\ stdout[Len(stdout)] = "done"

\* the spec's scenario: the third attempt still measures 270 KB
C5_Witness ==
    /\ pc = "exited"
    /\ CountTag("result") = 3
    /\ final_size = 270 * 1024
    /\ Printed("warning")
    /\ exit_status = 0
    /\ output_file.attempt = 3

\* ------------------------------------------------------------------- C6
\* C6: an ffmpeg invocation (pass 1 or pass 2, any attempt) that returns a
\* non-zero status is the last one of the run: the process has exited with
\* status 1, that attempt's size was not measured, the bitrate is still the
\* one that invocation used, and neither success nor the exhaustion warning
\* nor the closing message was printed.
C6_EncodeFailureIsFatal ==
    \A i \in 1 .. Len(calls) :
        calls[i].rc /= 0 =>
            /\ i = Len(calls)
            /\ pc = "exited"
            /\ exit_status = 1
            /\ CountTag("result") = calls[i].attempt - 1
            /\ current_bitrate = calls[i].bitrate
            /\ attempt = calls[i].attempt - 1
            /\ ~Printed("success")
            /\ ~Printed("warning")
            /\ ~Printed("done")

\* pass 2 of the second attempt fails
C6_Witness ==
    /\ pc = "exited"
    /\ Len(calls) = 4
    /\ calls[4].rc = 1
    /\ calls[4].pass = 2

\* ------------------------------------------------------------------- C7
\* C7 as stated: the process exits with a failure status when the input file
\* does not exist, when ffmpeg or ffprobe cannot be located, and when the
\* analysis fails; it exits with status 0 only after an encode that ended in
\* the success message or the exhaustion warning.
C7_ExitStatus ==
    pc = "exited" =>
        /\ input_file = "missing" => exit_status /= 0
        /\ (ffmpeg_path = "none" \/ ffprobe_path = "none") => exit_status /= 0
        /\ ProbeFailed => exit_status /= 0
        /\ exit_status = 0 => Printed("success") \/ Printed("warning")

\* ------------------------------------------------------------------- C8
\* C8: whenever ffmpeg or ffprobe could not be located, or get_video_info
\* failed, no ffmpeg pass has been invoked and nothing has been written to
\* the output path.
C8_AbortBeforeEncoding ==
    (ffmpeg_path = "none" \/ ffprobe_path = "none" \/ ProbeFailed) =>
        /\ calls = <<>>
        /\ output_file = NoFile
        /\ pc = "exited"

\* a run that ended because ffprobe could not be located
C8_Witness ==
    /\ pc = "exited"
    /\ ffmpeg_path = "path"
    /\ ffprobe_path = "none"
    /\ calls = <<>>

\* ------------------------------------------------------------------- C9
\* C9 as stated: get_video_info returns only a triple whose duration, width
\* and height are all present and strictly positive; a probe result without
\* a video stream, or with a missing, zero or negative duration or
\* dimension, ends the run with the analysis error before
\* calculate_target_details or ffmpeg is used.
C9_ProberValidates ==
    /\ pc = "calc" => duration > 0 /\ width > 0 /\ height > 0
    /\ (data.kind /= "unset" /\ (ProbeFailed \/ data.kind = "no_duration"
            \/ data.duration <= 0 \/ data.width <= 0 \/ data.height <= 0)) =>
          /\ pc = "exited"
          /\ Printed("err_analyze")
          /\ calls = <<>>

\* ------------------------------------------------------------------ C10
\* C10: for every source width > 0 and height > 0, the width and height
\* calculate_target_details returns are both even and both <= 512.
C10_EvenWithinTarget ==
    (pc = "pass1" /\ width > 0 /\ height > 0) =>
        /\ new_w % 2 = 0
        /\ new_h % 2 = 0
        /\ new_w <= 512
        /\ new_h <= 512

\* a portrait clip whose scaled width came out odd and was decremented
C10_Witness ==
    /\ pc = "pass1"
    /\ width > 0
    /\ height > width
    /\ ScaleEdge(height, width) % 2 = 1
    /\ new_w = ScaleEdge(height, width) - 1
    /\ new_h = 512

\* ------------------------------------------------------------------ C11
\* C11 as stated: for every source width > 0 and height > 0, extreme aspect
\* ratios included, the width and height calculate_target_details returns,
\* and every ffmpeg invocation scales to, are strictly positive.
C11_PositiveDimensions ==
    (InLoop /\ duration > 0 /\ width > 0 /\ height > 0) =>
        /\ new_w > 0
        /\ new_h > 0
        /\ \A i \in 1 .. Len(calls) : calls[i].w > 0 /\ calls[i].h > 0

\* ------------------------------------------------------------------ C12
\* C12 as stated: for every source width > 0 and height > 0, the output edge
\* of the longer source edge is 512 and the other output edge is
\* floor(512 * shorter / longer), less 1 if that is odd; a square source
\* gives 512 x 512 and 1920 x 1080 gives 512 x 288.
C12_LongerEdgeRule ==
    (pc = "pass1" /\ duration > 0 /\ width > 0 /\ height > 0) =>
        LET longer  == IF width >= height THEN width ELSE height
            shorter == IF width >= height THEN height ELSE width
            exact   == (512 * shorter) \div longer
            other   == IF exact % 2 = 1 THEN exact - 1 ELSE exact
        IN  /\ width > height => new_w = 512 /\ new_h = other
            /\ width < height => new_h = 512 /\ new_w = other
            /\ width = height => new_w = 512 /\ new_h = 512
            /\ (width = 1920 /\ height = 1080) => new_w = 512 /\ new_h = 288

\* ------------------------------------------------------------------ C13
\* C13: for every duration d > 0 and safety factor f, the bitrate
\* calculate_target_details returns is max(10, floor(256 * 1024 * 8 * f / d
\* / 1000)); with the default f = 0.75, d = 5 s gives 314 kbps.
C13_InitialBitrate ==
    (pc = "pass1" /\ duration > 0) =>
        \* f = current_bitrate_factor / 4 and d = duration / 8
        /\ bitrate_k = Max(10, (((256 * 1024 * 8 * current_bitrate_factor) \div 4) * 8)
                                 \div (1000 * duration))
        /\ (duration = 5 * 8 /\ current_bitrate_factor = 3) => bitrate_k = 314

\* the spec's scenario: 5 s at the default factor
C13_Witness ==
    /\ pc = "pass1"
    /\ duration = 5 * 8
    /\ current_bitrate_factor = 3
    /\ bitrate_k = 314

\* ------------------------------------------------------------------ C14
\* C14: with the size budget and safety factor fixed, a longer positive
\* duration never gets a higher bitrate from calculate_target_details than a
\* shorter one, the clamp at 10 kbps included.
C14_MonotoneInDuration ==
    (pc = "pass1" /\ duration > 0) =>
        \A d2 \in PositiveTicks :
            d2 >= duration =>
                calculate_target_details(d2, width, height,
                                         current_bitrate_factor)[3] <= bitrate_k

\* a clip just above the floor, with a longer clip that is clamped
C14_Witness ==
    /\ pc = "pass1"
    /\ duration > 0
    /\ bitrate_k > 10
    /\ \E d2 \in PositiveTicks :
         /\ d2 > duration
         /\ BitrateKbps(d2, current_bitrate_factor) < 10
         /\ calculate_target_details(d2, width, height,
                                     current_bitrate_factor)[3] = 10

\* ------------------------------------------------------------------ C15
C15_Numbering ==
    /\ \A i \in 1 .. Len(calls) :
         /\ calls[i].attempt = (i + 1) \div 2
         /\ calls[i].pass = 2 - (i % 2)
         /\ calls[i].attempt = attempt + 1 => calls[i].bitrate = current_bitrate
    /\ pc \in {"pass2", "cleanup", "measure", "decide"} =>
         /\ Len(calls) > 0
         /\ calls[Len(calls)].attempt = attempt + 1

C15_Step ==
    (pc = "decide" /\ final_size > 256 * 1024 /\ attempt + 1 < 3) =>
        /\ pc' = "pass1"
        /\ attempt' = attempt + 1
        /\ current_bitrate' = Max(10, (4 * current_bitrate) \div 5)

\* C15: when attempt n < 3 was measured above 256 KB at bitrate B, the loop
\* goes on to attempt n + 1 with bitrate max(10, floor(B * 0.80)); the
\* attempts are numbered 1, 2, 3 with none skipped or repeated, and each
\* runs at the loop's current bitrate.
C15_ReducingStep == [] C15_Numbering /\ [][C15_Step]_vars

\* the spec's scenario: 300 KB on attempt 1, attempt 2 under way at floor(B * 0.80)
C15_Witness ==
    /\ pc = "pass2"
    /\ attempt = 1
    /\ final_size = 300 * 1024
    /\ bitrate_k = 314
    /\ current_bitrate = 251
    /\ calls[3].bitrate = 251

\* ------------------------------------------------------------------ C16
\* C16 as stated: the attempt that follows a reduction always runs at a
\* bitrate strictly below the one before it.
C16_StrictDecrease ==
    duration > 0 =>
        \A i \in 2 .. Len(calls) :
            calls[i].pass = 1 => calls[i].bitrate < calls[i - 1].bitrate

\* C16 amended: the attempt that follows a reduction runs at a bitrate
\* strictly below the previous one when that was above 10 kbps, and at 10
\* kbps again when the previous one was already 10 kbps.
C16_DecreaseAboveFloor ==
    duration > 0 =>
        \A i \in 2 .. Len(calls) :
            calls[i].pass = 1 =>
                /\ calls[i - 1].bitrate > 10 => calls[i].bitrate < calls[i - 1].bitrate
                /\ calls[i - 1].bitrate = 10 => calls[i].bitrate = 10

\* one real decrease onto the floor, then a reduction that changes nothing
C16_Witness ==
    /\ duration > 0
    /\ Len(calls) >= 5
    /\ calls[1].bitrate > 10
    /\ calls[3].bitrate = 10
    /\ calls[5].bitrate = 10

\* ------------------------------------------------------------------ C20
\* C20: the bitrates of attempts 1, 2, 3 never increase, and once an attempt
\* has run at 10 kbps every later attempt runs at exactly 10 kbps.
C20_NonIncreasing ==
    \A i \in 1 .. Len(calls) :
        \A j \in i .. Len(calls) :
            /\ calls[j].bitrate <= calls[i].bitrate
            /\ calls[i].bitrate = 10 => calls[j].bitrate = 10

\* a long clip seeded at the floor, three oversize attempts, all at 10 kbps
C20_Witness ==
    /\ duration > 0
    /\ Len(calls) = 6
    /\ CountTag("overshot") = 2
    /\ \A i \in 1 .. 6 : calls[i].bitrate = 10

\* ------------------------------------------------------------------ C17
C17_History ==
    /\ \A i \in 1 .. Len(calls) :
         /\ calls[i].pass = 2 =>
              /\ i > 1
              /\ calls[i - 1].pass = 1
              /\ calls[i - 1].attempt = calls[i].attempt
              /\ calls[i - 1].rc = 0
         /\ (calls[i].pass = 1 /\ i > 1) =>
              /\ calls[i - 1].pass = 2
              /\ calls[i - 1].rc = 0
              /\ CountTag("result") >= calls[i - 1].attempt
    /\ CountTag("result") <=
         Cardinality({i \in 1 .. Len(calls) : calls[i].pass = 2 /\ calls[i].rc = 0})
    /\ pc = "decide" =>
         /\ calls[Len(calls)].pass = 2
         /\ calls[Len(calls)].rc = 0
         /\ calls[Len(calls)].attempt = attempt + 1
         /\ output_file.attempt = attempt + 1
         /\ final_size = output_file.size
         /\ CountTag("result") = attempt + 1

C17_Order ==
    /\ pc' = "pass2" => pc = "pass1"
    /\ pc' = "cleanup" => pc = "pass2"
    /\ pc' = "measure" => pc = "cleanup"
    /\ pc' = "decide" => pc = "measure"
    /\ pc' = "pass1" => pc \in {"calc", "decide"}
    /\ calls' /= calls => pc \in {"pass1", "pass2"}
    /\ final_size' /= final_size => pc = "measure"
    /\ (Len(stdout') > Len(stdout) /\ stdout'[Len(stdout')] = "result")
          => pc = "measure"

\* C17: in every attempt the steps run in the order pass 1, pass 2, log
\* cleanup, size measurement: pass 2 is invoked only right after a pass 1 of
\* the same attempt that returned 0, the size is read only after a pass 2 of
\* that attempt that returned 0 (and after the cleanup), and the pass 1 of
\* the next attempt is invoked only after that measurement.
C17_StepOrder == [] C17_History /\ [][C17_Order]_vars

\* the second attempt has been measured: four invocations, two results
C17_Witness ==
    /\ pc = "decide"
    /\ attempt = 1
    /\ Len(calls) = 4
    /\ CountTag("result") = 2

\* ------------------------------------------------------------------ C18
C18_SameTarget ==
    /\ InLoop => output_path = [dir |-> input_path.dir,
                                name |-> input_path.name \o "_sticker",
                                ext |-> ".webm"]
    /\ \A i \in 1 .. Len(calls) :
         /\ calls[i].w = new_w
         /\ calls[i].h = new_h
         /\ calls[i].input = input_path
         /\ calls[i].pass = 2 => calls[i].output = output_path
         /\ calls[i].w = calls[1].w /\ calls[i].h = calls[1].h
         /\ calls[i].input = calls[1].input

C18_Frame ==
    /\ pc = "decide" =>
         UNCHANGED <<new_w, new_h, bitrate_k, input_path, output_path, duration,
                     width, height, final_size, output_file, pass_log, calls,
                     exit_status>>
    /\ InLoop => UNCHANGED <<new_w, new_h, input_path, output_path>>

\* C18: a Reducing step changes only the current bitrate and the attempt
\* counter (besides what it prints); the output width and height and the
\* input and output paths fixed during seeding stay as they are for the
\* rest of the run, and every ffmpeg invocation reads the same input, scales
\* to the same width x height and (in pass 2) writes the same output path.
C18_RetryFrame == [] C18_SameTarget /\ [][C18_Frame]_vars

\* the third attempt writes where, and at the size, the first one did
C18_Witness ==
    /\ Len(calls) = 6
    /\ calls[6].rc = 0
    /\ calls[6].bitrate < calls[2].bitrate
    /\ calls[6].output = calls[2].output
    /\ calls[6].w = calls[2].w
    /\ calls[6].h = calls[2].h
    /\ output_file.attempt = 3

\* ------------------------------------------------------------------ C19
C19_SamePerAttempt ==
    \A i \in 1 .. Len(calls) :
        \A j \in 1 .. Len(calls) :
            calls[i].attempt = calls[j].attempt =>
                /\ calls[i].bitrate = calls[j].bitrate
                /\ calls[i].w = calls[j].w
                /\ calls[i].h = calls[j].h

C19_ChangePoint ==
    current_bitrate' /= current_bitrate =>
        \/ pc = "calc" /\ pc' = "pass1"
        \/ pc = "decide" /\ pc' = "pass1"

\* C19: pass 1 and pass 2 of one attempt are invoked with the same bitrate
\* and the same scale; after it is seeded, the bitrate changes only in the
\* step between an attempt's measurement and the pass 1 of the next attempt.
C19_PassesAgree == [] C19_SamePerAttempt /\ [][C19_ChangePoint]_vars

\* second attempt: both passes at the reduced bitrate
C19_Witness ==
    /\ pc = "cleanup"
    /\ attempt = 1
    /\ calls[3].bitrate = calls[4].bitrate
    /\ calls[4].bitrate < calls[2].bitrate
    /\ calls[4].bitrate < bitrate_k

====
